---- MODULE Spec2Model ----
(***************************************************************************)
(* Token lifecycle and request-retry coordinator of FinancialNetworkService *)
(* (frontend/src/services/financialNetworkService.ts, the class that keeps  *)
(* accessToken / refreshToken / refreshing).                                *)
(*                                                                          *)
(* One step of the model is one task of the JavaScript event loop: a call   *)
(* made by the UI, or the arrival of one HTTP response together with every  *)
(* promise continuation it unblocks (continuations are microtasks; no other *)
(* task runs between them).                                                 *)
(***************************************************************************)
EXTENDS Integers, FiniteSets, Sequences, TLC

\* ---- bounds of the model ------------------------------------------------
MaxReq == 2          \* calls made by the UI (CRUD operations and logins)
MaxRefresh == 2      \* refresh calls posted to token/refresh/
MaxRestart == 1      \* page reloads (the module is constructed again)

MaxCalls == MaxReq + MaxRefresh
Ids == 1..MaxCalls

\* ---- values --------------------------------------------------------------
null == 0                                  \* JS null / undefined / absent
NetworkError == 0                          \* an error without a response
OK == 200
Unauthorized == 401
OtherStatus == 404
DefaultStatus == 500

Statuses == {OK, Unauthorized, OtherStatus, NetworkError}

NoHeader == <<>>
Bearer(token) == <<"Bearer", token>>

NoData == [of |-> "none", status |-> 0]
NoBody == [access |-> null, refresh |-> null]

\* new Error(message): no response attached
Error(message) == [message |-> message, status |-> 0, data |-> NoData]

\* the AxiosError of a call of the given kind answered with status s
\* (s = NetworkError: no response at all)
AxiosError(kind, s) ==
    IF s = NetworkError
    THEN [message |-> "Network Error", status |-> 0, data |-> NoData]
    ELSE [message |-> "Request failed with status code",
          status |-> s, data |-> [of |-> kind, status |-> s]]

handleError(error) ==
    [message |-> error.message,
     status |-> IF error.status = 0 THEN DefaultStatus ELSE error.status,
     details |-> error.data]

\* what a caller has received
Pending == [type |-> "pending", status |-> 0, message |-> "", details |-> NoData]
Data == [type |-> "data", status |-> OK, message |-> "", details |-> NoData]
Thrown(e) == [type |-> "error", status |-> e.status, message |-> e.message,
              details |-> e.details]
ThrownRaw(e) == [type |-> "error", status |-> e.status, message |-> e.message,
                 details |-> e.data]

NoCall == [kind |-> "none", st |-> "new", retry |-> FALSE, n |-> 0,
           auth |-> NoHeader, wait |-> null, body |-> null, res |-> Pending,
           rs |-> 0, got |-> null, rot |-> null, mk |-> null,
           exp |-> FALSE, lo |-> FALSE]

VARIABLES
    calls,         \* every axios call made so far, by id
    nCalls,        \* number of calls made
    accessToken,   \* this.accessToken
    refreshToken,  \* this.refreshToken
    refreshing,    \* this.refreshing: null, or the id of the refresh call
    storage,       \* localStorage: keys accessToken and refreshToken
    header,        \* axios.defaults.headers.common['Authorization']
    restarts,      \* page reloads so far
    expired,       \* a refresh call failed and no login succeeded since
    loggedOut,     \* logout() was called and no login succeeded since
    isLoggedIn     \* LoginForm's isLoggedIn state

vars == <<calls, nCalls, accessToken, refreshToken, refreshing, storage,
          header, restarts, expired, loggedOut, isLoggedIn>>

\* the service's state as one value, so that the code's sequential
\* statements compose
Cur == [calls |-> calls, nCalls |-> nCalls, accessToken |-> accessToken,
        refreshToken |-> refreshToken, refreshing |-> refreshing,
        storage |-> storage, header |-> header]

Becomes(S) ==
    /\ calls' = S.calls
    /\ nCalls' = S.nCalls
    /\ accessToken' = S.accessToken
    /\ refreshToken' = S.refreshToken
    /\ refreshing' = S.refreshing
    /\ storage' = S.storage
    /\ header' = S.header

\* ---- the service ---------------------------------------------------------
EmptyStorage == [accessToken |-> null, refreshToken |-> null]

\* a setAuthHeader that leaves the default header alone
setAuthHeader_Skip(S, token) == S

setAuthHeader(S, token) == [S EXCEPT !.header = Bearer(token)]

\* a logout that leaves the default header in place
logout_KeepsHeader(S) ==
    [S EXCEPT !.storage = EmptyStorage,
              !.accessToken = null,
              !.refreshToken = null]

logout(S) ==
    [S EXCEPT !.storage = EmptyStorage,
              !.accessToken = null,
              !.refreshToken = null,
              !.header = NoHeader]

\* the earlier constructor: only the access token is loaded
constructor_AccessOnly(S) ==
    LET S1 == [S EXCEPT !.accessToken = S.storage.accessToken,
                        !.refreshToken = null,
                        !.refreshing = null,
                        !.header = NoHeader]
    IN  IF S1.accessToken # null THEN setAuthHeader(S1, S1.accessToken) ELSE S1

\* constructor: load the tokens from storage, set the default header
constructor(S) ==
    LET S1 == [S EXCEPT !.accessToken = S.storage.accessToken,
                        !.refreshToken = S.storage.refreshToken,
                        !.refreshing = null,
                        !.header = NoHeader]
    IN  IF S1.accessToken # null THEN setAuthHeader(S1, S1.accessToken) ELSE S1

\* axios(config) with no explicit Authorization: the default header is merged in
Send(S, kind, body, isExp) ==
    LET id == S.nCalls + 1
    IN  [S EXCEPT !.nCalls = id,
                  !.calls[id] = [NoCall EXCEPT !.kind = kind, !.st = "sent",
                                               !.n = 1, !.auth = S.header,
                                               !.body = body, !.exp = isExp]]

Waiters(S, P) == {w \in Ids : S.calls[w].st = "waiting" /\ S.calls[w].wait \in P}

\* the refresh promises that reject together with the promises in P: a
\* refresh call suspended on one of them rejects its own promise in turn
RECURSIVE RejectedWith(_, _)
RejectedWith(S, P) ==
    LET Q == P \cup {w \in Waiters(S, P) : S.calls[w].kind = "refresh" /\ w \notin P}
    IN  IF Q = P THEN P ELSE RejectedWith(S, Q)

\* a retry that leaves the request's Authorization header as it was sent
RetryHeader_Stale(S, w, newAccessToken) == S.calls[w].auth

\* the retry: originalRequest.headers['Authorization'] = `Bearer ${newAccessToken}`
RetryHeader(S, w, newAccessToken) == Bearer(newAccessToken)

\* a refreshAccessToken whose finally block is missing
Finally_Missing(S) == S

\* refreshAccessToken's finally block, run when the awaited promise settles
\* and before refreshAccessToken returns to the interceptor that called it
Finally(S) == [S EXCEPT !.refreshing = null]

\* the promise of refresh call p resolves with newAccessToken: refreshAccessToken
\* clears the marker and returns, then every interceptor awaiting it retries
\* its request (mk: the marker as the retry is dispatched)
Resolved(S, p, newAccessToken) ==
    LET W == Waiters(S, {p})
        S1 == Finally(S)
    IN  [S1 EXCEPT !.calls = [w \in Ids |->
                     IF w = p THEN [@[w] EXCEPT !.st = "done", !.res = Data]
                     ELSE IF w \in W
                     THEN [@[w] EXCEPT !.st = "sent", !.wait = null,
                                       !.n = @ + 1,
                                       !.mk = S1.refreshing,
                                       !.auth = RetryHeader(S, w, newAccessToken)]
                     ELSE @[w]]]

\* the promise of refresh call p rejects with error e: doRefreshToken's catch
\* logs out, refreshAccessToken clears the marker, every interceptor awaiting
\* it logs out and rejects its request with e
Rejected(S, p, e) ==
    LET P == RejectedWith(S, {p})
        W == Waiters(S, P) \ P
        S1 == Finally(logout(S))
    IN  [S1 EXCEPT !.calls = [w \in Ids |->
                      IF w \in P
                      THEN [@[w] EXCEPT !.st = "done", !.wait = null,
                                        !.res = ThrownRaw(e)]
                      ELSE IF w \in W
                      THEN [@[w] EXCEPT !.st = "done", !.wait = null,
                                        !.res = Thrown(handleError(e))]
                      ELSE @[w]]]

\* a login that keeps the tokens in memory only
loginStore_NoPersist(S, r, body) ==
    IF body.access = null \/ body.refresh = null
    THEN [S EXCEPT !.calls[r].st = "done",
                   !.calls[r].res = ThrownRaw(Error("Invalid token response"))]
    ELSE LET S1 == [S EXCEPT !.accessToken = body.access,
                             !.refreshToken = body.refresh,
                             !.calls[r].st = "done",
                             !.calls[r].res = Data]
         IN  setAuthHeader(S1, body.access)

\* the test of the earlier login: only the access token is required
ValidTokenResponse_AccessOnly(body) == body.access # null

\* the test a login response must pass
ValidTokenResponse(body) == body.access # null /\ body.refresh # null

\* login, after the post to token/ has resolved with body
loginStore(S, r, body) ==
    IF ~ValidTokenResponse(body)
    THEN [S EXCEPT !.calls[r].st = "done",
                   !.calls[r].res = ThrownRaw(Error("Invalid token response"))]
    ELSE LET S1 == [S EXCEPT !.accessToken = body.access,
                             !.refreshToken = body.refresh,
                             !.storage = [accessToken |-> body.access,
                                          refreshToken |-> body.refresh],
                             !.calls[r].st = "done",
                             !.calls[r].res = Data]
         IN  setAuthHeader(S1, body.access)

\* a doRefreshToken that stores whatever the response carries
refreshStore_NoCheck(S, p, body) ==
    LET newAccessToken == body.access
        S1 == [S EXCEPT !.accessToken = newAccessToken,
                        !.storage.accessToken = newAccessToken]
    IN  Resolved(setAuthHeader(S1, newAccessToken), p, newAccessToken)

\* doRefreshToken, after the post to token/refresh/ has resolved with body
refreshStore(S, p, body) ==
    LET newAccessToken == body.access
    IN  IF newAccessToken = null
        THEN Rejected(S, p, Error("No access token received"))
        ELSE LET S1 == [S EXCEPT !.accessToken = newAccessToken,
                                 !.storage.accessToken = newAccessToken]
             IN  Resolved(setAuthHeader(S1, newAccessToken), p, newAccessToken)

\* the axios promise of call r is fulfilled with a response carrying body
Fulfilled(S, r, body) ==
    CASE S.calls[r].kind = "login" -> loginStore(S, r, body)
      [] S.calls[r].kind = "refresh" -> refreshStore(S, r, body)
      [] OTHER -> [S EXCEPT !.calls[r].st = "done", !.calls[r].res = Data]

\* a rejection that also runs the interceptor's catch (return await axios)
Failed_LogsOut(S, r, e) ==
    CASE S.calls[r].kind = "refresh" -> Rejected(S, r, e)
      [] OTHER -> [logout(S) EXCEPT !.calls[r].st = "done",
                                    !.calls[r].res = Thrown(handleError(e))]

\* the axios promise of call r is rejected with error e
Failed(S, r, e) ==
    CASE S.calls[r].kind = "refresh" -> Rejected(S, r, e)
      [] OTHER -> [S EXCEPT !.calls[r].st = "done",
                            !.calls[r].res = Thrown(handleError(e))]

\* doRefreshToken without its test for a missing refresh token
doRefreshToken_NoTokenCheck(S, r) ==
    LET S1 == Send(S, "refresh", S.refreshToken, FALSE)
        p == S1.nCalls
    IN  [S1 EXCEPT !.refreshing = p,
                   !.calls[r].st = "waiting",
                   !.calls[r].wait = p]

\* doRefreshToken called for the interceptor of call r
doRefreshToken(S, r) ==
    IF S.refreshToken = null
    THEN \* throws at once; the interceptor's catch logs out and rejects
         Failed(logout(Finally(S)), r,
                Error("No refresh token available"))
    ELSE LET S1 == Send(S, "refresh", S.refreshToken, FALSE)
             p == S1.nCalls
         IN  [S1 EXCEPT !.refreshing = p,
                        !.calls[r].st = "waiting",
                        !.calls[r].wait = p]

\* refreshAccessToken without its single-flight test
AlreadyRefreshing_Never(S) == FALSE

\* the single-flight test of refreshAccessToken
AlreadyRefreshing(S) == S.refreshing # null

refreshAccessToken(S, r) ==
    IF AlreadyRefreshing(S)
    THEN [S EXCEPT !.calls[r].st = "waiting", !.calls[r].wait = S.refreshing]
    ELSE doRefreshToken(S, r)

\* an interceptor that sends every error of a first attempt to the refresh path
PassThrough_AnyError(c, s) == c.retry

\* an interceptor that rejects every error, unauthorized included
PassThrough_Always(c, s) == TRUE

\* the interceptor's test without the _retry flag
PassThrough_IgnoreRetry(c, s) == s # Unauthorized

\* the response interceptor's test: reject without refreshing
PassThrough(c, s) == s # Unauthorized \/ c.retry

\* the response interceptor's error handler for call r answered with status s
interceptor(S, r, s) ==
    IF PassThrough(S.calls[r], s)
    THEN Failed(S, r, AxiosError(S.calls[r].kind, s))
    ELSE refreshAccessToken([S EXCEPT !.calls[r].retry = TRUE], r)

\* ---- the steps -----------------------------------------------------------
Issued == {r \in Ids : calls[r].kind \in {"app", "login"}}
Refreshes == {r \in Ids : calls[r].kind = "refresh"}
InFlight == {r \in Ids : calls[r].st = "sent"}

\* the token the backend issues in its answer to call r
Tok(r) == r + 1

Init ==
    /\ calls = [r \in Ids |-> NoCall]
    /\ nCalls = 0
    /\ storage \in {EmptyStorage, [accessToken |-> 1, refreshToken |-> 1]}
    /\ accessToken = storage.accessToken
    /\ refreshToken = storage.refreshToken
    /\ header = IF storage.accessToken # null THEN Bearer(storage.accessToken)
                ELSE NoHeader
    /\ refreshing = null
    /\ restarts = 0
    /\ expired = FALSE
    /\ loggedOut = FALSE
    /\ isLoggedIn = FALSE

\* getNodes, createNode, ...: one axios call
Request ==
    /\ Cardinality(Issued) < MaxReq
    /\ Becomes(Send(Cur, "app", null, expired))
    /\ UNCHANGED <<restarts, expired, loggedOut, isLoggedIn>>

\* login(username, password), up to the post to token/
Login ==
    /\ Cardinality(Issued) < MaxReq
    /\ Becomes(Send(Cur, "login", null, expired))
    /\ UNCHANGED <<restarts, expired, loggedOut, isLoggedIn>>

\* bookkeeping: the refresh calls in flight get their lo mark set to v
MarkRefreshes(S, v) ==
    [S EXCEPT !.calls = [r \in Ids |->
        IF @[r].kind = "refresh" /\ @[r].st = "sent"
        THEN [@[r] EXCEPT !.lo = v] ELSE @[r]]]

\* logout() called by the UI (LoginForm's handleLogout)
Logout ==
    /\ Becomes(logout(MarkRefreshes(Cur, TRUE)))
    /\ loggedOut' = TRUE
    /\ isLoggedIn' = FALSE
    /\ UNCHANGED <<restarts, expired>>

\* the bodies the backend can answer call r with
Bodies(r) ==
    CASE calls[r].kind = "login" ->
            {[access |-> Tok(r), refresh |-> Tok(r)],
             [access |-> null, refresh |-> Tok(r)],
             [access |-> Tok(r), refresh |-> null]}
      [] calls[r].kind = "refresh" ->
            {[access |-> Tok(r), refresh |-> null],
             [access |-> Tok(r), refresh |-> Tok(r)],
             [access |-> null, refresh |-> null]}
      [] OTHER -> {NoBody}

LoginStored(r, body) == calls[r].kind = "login" /\ ValidTokenResponse(body)

\* call r is answered with a success status and body
RespondOK(r, body) ==
    /\ calls[r].st = "sent"
    /\ body \in Bodies(r)
    /\ LET S0 == [Cur EXCEPT !.calls[r].rs = OK, !.calls[r].got = body.access,
                             !.calls[r].rot = body.refresh]
           S1 == IF LoginStored(r, body) THEN MarkRefreshes(S0, FALSE) ELSE S0
       IN  Becomes(Fulfilled(S1, r, body))
    /\ expired' = IF LoginStored(r, body) THEN FALSE
                  ELSE IF calls[r].kind = "refresh" /\ body.access = null THEN TRUE
                  ELSE expired
    /\ loggedOut' = IF LoginStored(r, body) THEN FALSE ELSE loggedOut
    /\ isLoggedIn' = IF LoginStored(r, body) THEN TRUE ELSE isLoggedIn
    /\ UNCHANGED restarts

\* a refresh call can still be posted within the bound
CanStart == Cardinality(Refreshes) < MaxRefresh /\ nCalls < MaxCalls

\* call r is answered with an error status s, or fails without an answer
RespondError(r, s) ==
    /\ calls[r].st = "sent"
    /\ s \in Statuses \ {OK}
    /\ LET S == interceptor([Cur EXCEPT !.calls[r].rs = s], r, s)
       IN  /\ S.nCalls > nCalls => CanStart
           /\ Becomes(S)
           /\ expired' = IF calls[r].kind = "refresh" /\ S.calls[r].st = "done"
                         THEN TRUE ELSE expired
    /\ UNCHANGED <<restarts, loggedOut, isLoggedIn>>

AnswerOK == \E r \in Ids : \E body \in Bodies(r) : RespondOK(r, body)

AnswerError == \E r \in Ids : \E s \in Statuses : RespondError(r, s)

\* the page is reloaded: every pending call is dropped with the old page, the
\* module is constructed again from localStorage
Restart ==
    /\ restarts < MaxRestart
    /\ restarts' = restarts + 1
    /\ LET S == [Cur EXCEPT !.calls = [r \in Ids |->
                    IF @[r].st \in {"sent", "waiting"}
                    THEN [@[r] EXCEPT !.st = "gone", !.wait = null] ELSE @[r]]]
       IN  Becomes(constructor(S))
    /\ isLoggedIn' = FALSE
    /\ UNCHANGED <<expired, loggedOut>>

Next ==
    \/ Request
    \/ Login
    \/ Logout
    \/ AnswerOK
    \/ AnswerError
    \/ Restart

Spec == Init /\ [][Next]_vars

\* the backend eventually answers every call it receives
Respond(r) ==
    \/ \E body \in Bodies(r) : RespondOK(r, body)
    \/ \E s \in Statuses : RespondError(r, s)

FairSpec == Spec /\ \A r \in Ids : WF_vars(Respond(r))

\* ---- properties ----------------------------------------------------------
HeaderOf(token) == IF token = null THEN NoHeader ELSE Bearer(token)

Cleared ==
    /\ accessToken = null
    /\ refreshToken = null
    /\ storage = EmptyStorage
    /\ header = NoHeader

\* call r was in flight and this step delivered its answer
Answered(r) == calls[r].st = "sent" /\ calls'[r].st \notin {"sent", "gone"}

\* this step is the successful completion of refresh call p
RefreshSucceeded(p) ==
    /\ calls[p].kind = "refresh"
    /\ Answered(p)
    /\ calls'[p].st = "done"
    /\ calls'[p].res = Data

\* C1: at most one refresh call is in flight at any time; while one is in
\* flight it is the attempt the marker names, and every request suspended
\* after an unauthorized response has joined that one attempt.
C1_SingleFlight ==
    /\ Cardinality({p \in Refreshes : calls[p].st = "sent"}) <= 1
    /\ \A p \in Refreshes : calls[p].st = "sent" => refreshing = p
    /\ \A w \in Ids : calls[w].st = "waiting" /\ calls[w].kind # "refresh"
          => /\ calls[w].wait = refreshing
             /\ calls[refreshing].kind = "refresh"

\* two requests were answered unauthorized before the refresh completed: both
\* wait on the one refresh call in flight
C1_Witness ==
    \E p \in Refreshes :
        /\ calls[p].st = "sent"
        /\ Cardinality({w \in Waiters(Cur, {p}) : calls[w].kind = "app"}) >= 2
        /\ Cardinality(Refreshes) = 1

\* C2: every request that received an unauthorized response and is suspended
\* on the refresh eventually resolves to its caller (or its page is gone),
\* when the backend answers every call.
C2_EventuallyResolves ==
    \A r \in Ids :
        (calls[r].kind \in {"app", "login"} /\ calls[r].st = "waiting")
            ~> (calls[r].st \in {"done", "gone"})

\* C3: when the refresh call fails (network error or any error status), both
\* credentials are cleared everywhere, no queued request is retried and every
\* queued request is failed to its caller.
C3_RefreshFailureClears ==
    [][\A p \in Ids :
         (calls[p].kind = "refresh" /\ Answered(p) /\ calls'[p].rs # OK)
         => /\ Cleared'
            /\ \A w \in Waiters(Cur, {p}) :
                  /\ calls'[w].st = "done"
                  /\ calls'[w].res.type = "error"
                  /\ calls'[w].n = calls[w].n]_vars

\* C4: every request is dispatched at most twice; a retry answered
\* unauthorized is failed to its caller with that answer, is not queued again
\* and posts no refresh call.
C4_AtMostOneRetry ==
    [][\A r \in Ids :
         /\ calls'[r].n <= 2
         /\ (Answered(r) /\ calls[r].n = 2 /\ calls'[r].rs = Unauthorized
               /\ calls[r].kind # "refresh")
            => /\ calls'[r].st = "done"
               /\ calls'[r].res.type = "error"
               /\ calls'[r].res.status = Unauthorized
               /\ calls'[r].n = 2
               /\ nCalls' = nCalls
               /\ refreshing' = refreshing]_vars

\* a request was retried once, answered unauthorized again and failed
C4_Witness ==
    \E r \in Ids :
        /\ calls[r].kind = "app"
        /\ calls[r].n = 2
        /\ calls[r].st = "done"
        /\ calls[r].rs = Unauthorized
        /\ calls[r].res.type = "error"
        /\ Cardinality(Refreshes) = 1

\* C5: when a refresh succeeds, every request queued behind it is dispatched
\* once more, carrying the access token the refresh returned and not the one
\* it was first sent with, and that token is the stored access credential
\* (memory, storage and default header).
C5_FanOut ==
    [][\A p \in Ids :
         RefreshSucceeded(p)
         => /\ accessToken' = Tok(p)
            /\ storage'.accessToken = Tok(p)
            /\ header' = Bearer(Tok(p))
            /\ \A w \in Waiters(Cur, {p}) :
                  /\ calls'[w].st = "sent"
                  /\ calls'[w].n = calls[w].n + 1
                  /\ calls'[w].auth = Bearer(Tok(p))
                  /\ calls'[w].auth # calls[w].auth]_vars

\* a refresh succeeded and two requests queued behind it are in flight again
\* with the new token
C5_Witness ==
    \E p \in Refreshes :
        /\ calls[p].st = "done"
        /\ calls[p].res = Data
        /\ accessToken = Tok(p)
        /\ Cardinality({w \in Ids : /\ calls[w].kind = "app"
                                    /\ calls[w].st = "sent"
                                    /\ calls[w].n = 2
                                    /\ calls[w].auth = Bearer(Tok(p))}) >= 2

\* C6: when logout() was called while a refresh call was in flight (and no
\* login succeeded since), the successful return of that refresh leaves both
\* credentials, the persisted credentials and the default header absent.
C6_LogoutWins ==
    [][\A p \in Ids :
         (RefreshSucceeded(p) /\ calls[p].lo) => Cleared']_vars

\* C7: a login the backend rejects (any error status) posts no refresh call,
\* is not retried, and its caller receives the backend's status and details.
C7_LoginBypasses ==
    [][\A r \in Ids :
         (calls[r].kind = "login" /\ Answered(r) /\ calls[r].n = 1
            /\ calls'[r].rs \in {Unauthorized, OtherStatus})
         => /\ nCalls' = nCalls
            /\ calls'[r].st = "done"
            /\ calls'[r].n = 1
            /\ calls'[r].res =
                  Thrown(handleError(AxiosError("login", calls'[r].rs)))]_vars

\* C8: every call dispatched in a step (first attempt or retry) carries the
\* access credential stored at that moment.
C8_CurrentCredential ==
    [][\A r \in Ids :
         calls'[r].n > calls[r].n => calls'[r].auth = HeaderOf(accessToken')]_vars

\* a retry and a first attempt are in flight together after a refresh that
\* replaced the token, both stamped with the stored token
C8_Witness ==
    \E r, q \in Ids :
        /\ calls[r].st = "sent" /\ calls[r].n = 2
        /\ calls[q].st = "sent" /\ calls[q].n = 1 /\ calls[q].kind = "app"
        /\ accessToken \notin {null, 1}
        /\ calls[r].auth = Bearer(accessToken)
        /\ calls[q].auth = Bearer(accessToken)

\* C9 as stated: a request issued after a failed refresh, with no login
\* since, fails to its caller without any network call.
C9_FailsFast ==
    \A r \in Ids :
        (calls[r].kind = "app" /\ calls[r].exp)
        => /\ calls[r].n = 0
           /\ calls[r].st = "done"
           /\ calls[r].res.type = "error"

\* C9 amended: a request issued after a failed refresh, with no login since,
\* is sent to the backend without a credential; if it is then answered
\* unauthorized while still no login has succeeded, no refresh call is
\* posted, it is not retried and it fails to its caller.
C9_NoRefreshCall ==
    [][\A r \in Ids :
         /\ (calls[r].kind = "none" /\ calls'[r].kind = "app" /\ calls'[r].exp)
            => /\ calls'[r].st = "sent"
               /\ calls'[r].n = 1
               /\ calls'[r].auth = NoHeader
         /\ (calls[r].kind = "app" /\ calls[r].exp /\ expired /\ Answered(r)
               /\ calls'[r].rs = Unauthorized)
            => /\ nCalls' = nCalls
               /\ calls'[r].st = "done"
               /\ calls'[r].res.type = "error"
               /\ calls'[r].n = 1]_vars

\* a request issued after a failed refresh was sent, answered unauthorized
\* and failed, and only the one refresh call was ever posted
C9_Witness ==
    \E r \in Ids :
        /\ calls[r].kind = "app" /\ calls[r].exp
        /\ expired
        /\ calls[r].st = "done"
        /\ calls[r].rs = Unauthorized
        /\ calls[r].n = 1
        /\ Cardinality(Refreshes) = 1

\* C10: a successful refresh whose response carries a refresh token stores
\* it (memory and storage); one that carries none leaves the stored refresh
\* credential unchanged.
C10_Rotation ==
    [][\A p \in Ids :
         RefreshSucceeded(p)
         => IF calls'[p].rot # null
            THEN /\ refreshToken' = calls'[p].rot
                 /\ storage'.refreshToken = calls'[p].rot
            ELSE /\ refreshToken' = refreshToken
                 /\ storage'.refreshToken = storage.refreshToken]_vars

\* C11: a successful login stores the returned access token (memory and
\* storage) and the returned refresh token (memory and storage) and sets the
\* default header to 'Bearer <access>'; the session is Authenticated.
C11_LoginStores ==
    [][\A r \in Ids :
         (calls[r].kind = "login" /\ Answered(r) /\ calls'[r].res = Data)
         => /\ calls'[r].got # null /\ calls'[r].rot # null
            /\ accessToken' = calls'[r].got
            /\ refreshToken' = calls'[r].rot
            /\ storage' = [accessToken |-> calls'[r].got,
                           refreshToken |-> calls'[r].rot]
            /\ header' = Bearer(calls'[r].got)]_vars

\* a login has just succeeded from a session without credentials
C11_Witness ==
    \E r \in Ids :
        /\ calls[r].kind = "login" /\ calls[r].st = "done" /\ calls[r].res = Data
        /\ calls[r].n = 1
        /\ accessToken = Tok(r) /\ refreshToken = Tok(r)
        /\ storage = [accessToken |-> Tok(r), refreshToken |-> Tok(r)]
        /\ header = Bearer(Tok(r))
        /\ isLoggedIn

C13_LogoutClears ==
    [][loggedOut'
       => /\ Cleared'
          /\ \A r \in Ids :
                calls'[r].n > calls[r].n => calls'[r].auth = NoHeader]_vars

\* C14: a page reload finds in storage what memory held: the reloaded
\* service has the same access and refresh credential as before the reload
\* and its default header is set exactly when an access credential exists
\* (both absent after a clear).
C14_RoundTrip ==
    [][restarts' > restarts
       => /\ accessToken' = accessToken
          /\ refreshToken' = refreshToken
          /\ storage' = storage
          /\ accessToken' = storage.accessToken
          /\ refreshToken' = storage.refreshToken
          /\ header' = HeaderOf(accessToken)]_vars

\* the page was reloaded after a login or a refresh had saved new
\* credentials, and the service holds them again
C14_Witness ==
    /\ restarts = 1
    /\ accessToken \notin {null, 1}
    /\ refreshToken # null
    /\ storage = [accessToken |-> accessToken, refreshToken |-> refreshToken]
    /\ header = Bearer(accessToken)
    /\ \A r \in Ids : calls[r].st \in {"new", "done", "gone"}
    /\ \E r \in Ids : calls[r].st = "gone"

\* C15: an application request answered with success or with an error other
\* than unauthorized is delivered to its caller (data, or the backend's
\* error) in that step: no refresh call is posted, the request is not
\* dispatched again, and credentials, header and marker are unchanged.
C15_OnlyUnauthorizedRefreshes ==
    [][\A r \in Ids :
         (calls[r].kind = "app" /\ Answered(r) /\ calls'[r].rs # Unauthorized)
         => /\ calls'[r].st = "done"
            /\ calls'[r].res = IF calls'[r].rs = OK THEN Data
                               ELSE Thrown(handleError(AxiosError("app", calls'[r].rs)))
            /\ calls'[r].n = calls[r].n
            /\ calls'[r].retry = calls[r].retry
            /\ nCalls' = nCalls
            /\ UNCHANGED <<accessToken, refreshToken, storage, header,
                           refreshing>>]_vars

\* a first attempt was answered 404 while the session holds credentials: the
\* caller has the 404 and no refresh call was ever posted
C15_Witness ==
    \E r \in Ids :
        /\ calls[r].kind = "app" /\ calls[r].st = "done"
        /\ calls[r].n = 1 /\ ~calls[r].retry
        /\ calls[r].rs = OtherStatus
        /\ calls[r].res.status = OtherStatus
        /\ accessToken # null /\ refreshToken # null
        /\ Refreshes = {}

\* this step is the failure of refresh call p: an error answer, no answer at
\* all, or a success answer without an access token
RefreshFailed(p) ==
    /\ calls[p].kind = "refresh"
    /\ Answered(p)
    /\ calls'[p].rs # OK \/ calls'[p].got = null

\* C16: when a refresh fails, every caller queued behind it receives an
\* error, and all of them receive the same one.
C16_UniformError ==
    [][\A p \in Ids :
         RefreshFailed(p)
         => \A w, v \in Waiters(Cur, {p}) \ {p} :
               /\ calls'[w].st = "done"
               /\ calls'[w].res.type = "error"
               /\ calls'[w].res = calls'[v].res]_vars

\* the request of call w was ended by the refresh path: flagged for retry
\* and failed to its caller without a second dispatch (logout() has run)
EndedByRefresh(w) ==
    /\ calls[w].kind = "app"
    /\ calls[w].st = "done"
    /\ calls[w].retry
    /\ calls[w].n = 1

\* C17: a failure that logged the user out reaches the caller as an error
\* that no ordinary failed request produces, and LoginForm does not show
\* 'logged in' while the service holds no credentials.
C17_SessionEnded ==
    /\ isLoggedIn => ~(accessToken = null /\ refreshToken = null)
    /\ \A w \in Ids :
          EndedByRefresh(w)
          => \A s \in Statuses \ {OK} :
                calls[w].res # Thrown(handleError(AxiosError("app", s)))

\* C18 as stated: when a refresh succeeds, every queued request's retry is
\* dispatched while the in-flight marker still names that refresh.
C18_RetriesBeforeIdle ==
    [][\A p \in Ids :
         RefreshSucceeded(p)
         => \A w \in Waiters(Cur, {p}) :
               /\ calls'[w].st = "sent"
               /\ calls'[w].n = calls[w].n + 1
               /\ calls'[w].mk = p]_vars

\* C18 amended: when a refresh succeeds the marker is cleared first and every
\* queued request's retry is dispatched after that in the same task, so in
\* no state a request is still queued behind a refresh that has completed.
C18_RetriesWithinTask ==
    [][/\ \A p \in Ids :
            RefreshSucceeded(p)
            => /\ refreshing' = null
               /\ \A w \in Waiters(Cur, {p}) :
                     /\ calls'[w].st = "sent"
                     /\ calls'[w].n = calls[w].n + 1
                     /\ calls'[w].mk = null
       /\ \A w \in Ids :
            calls'[w].st = "waiting"
            => /\ calls'[w].wait = refreshing'
               /\ calls'[calls'[w].wait].st # "done"]_vars

\* a refresh has completed, its two queued requests are in flight again and
\* the coordinator is idle
C18_Witness ==
    \E p \in Refreshes :
        /\ calls[p].st = "done" /\ calls[p].res = Data
        /\ refreshing = null
        /\ Cardinality({w \in Ids : /\ calls[w].st = "sent"
                                    /\ calls[w].n = 2
                                    /\ calls[w].retry
                                    /\ calls[w].mk = null}) >= 2
        /\ \A w \in Ids : calls[w].st # "waiting"

\* C19: whenever the marker names a refresh, it is eventually cleared, when
\* the backend answers every call.
C19_ReturnsToIdle == (refreshing # null) ~> (refreshing = null)

\* C20: the unauthorized answer to a first attempt is not delivered: in that
\* step the request is queued behind a refresh, or fails with the error of a
\* refresh that could not start; a caller served without a retry never holds
\* its own request's 401, and a caller served after a retry holds the
\* retry's outcome.
C20_FirstUnauthorizedAbsorbed ==
    [][\A r \in Ids :
         /\ (calls[r].kind \in {"app", "login"} /\ Answered(r) /\ calls[r].n = 1
               /\ calls'[r].rs = Unauthorized)
            => \/ calls'[r].st = "waiting"
               \/ /\ calls'[r].st = "done"
                  /\ calls'[r].res =
                        Thrown(handleError(Error("No refresh token available")))
         /\ (calls'[r].kind \in {"app", "login"} /\ calls'[r].st = "done"
               /\ calls'[r].n = 1)
            => calls'[r].res #
                  Thrown(handleError(AxiosError(calls'[r].kind, Unauthorized)))
         /\ (calls'[r].kind = "app" /\ calls'[r].st = "done" /\ calls'[r].n = 2)
            => calls'[r].res = IF calls'[r].rs = OK THEN Data
                               ELSE Thrown(handleError(AxiosError("app", calls'[r].rs)))]_vars

\* one caller has the data of its retry, another the error of the failed
\* refresh; both first attempts had been answered unauthorized
C20_Witness ==
    \E r, q \in Ids :
        /\ calls[r].kind = "app" /\ calls[r].st = "done" /\ calls[r].retry
        /\ calls[r].n = 2 /\ calls[r].res = Data
        /\ calls[q].kind = "app" /\ calls[q].st = "done" /\ calls[q].retry
        /\ calls[q].n = 1 /\ calls[q].res.type = "error"
        /\ calls[q].res.details.of = "refresh"

\* C21: the answer to a retried request goes to the caller of that request
\* (data, or the backend's error, a second unauthorized included) and posts
\* no refresh call; a retry that fails leaves credentials, persisted
\* credentials, default header, marker and LoginForm's state as they were.
C21_RetryOutcomeDelivered ==
    [][\A r \in Ids :
         (calls[r].kind \in {"app", "login"} /\ Answered(r) /\ calls[r].n = 2)
         => /\ calls'[r].st = "done"
            /\ calls'[r].n = 2
            /\ nCalls' = nCalls
            /\ calls[r].kind = "app"
               => calls'[r].res =
                     IF calls'[r].rs = OK THEN Data
                     ELSE Thrown(handleError(AxiosError("app", calls'[r].rs)))
            /\ calls'[r].rs # OK
               => /\ calls'[r].res =
                        Thrown(handleError(AxiosError(calls[r].kind, calls'[r].rs)))
                  /\ UNCHANGED <<accessToken, refreshToken, storage, header,
                                 refreshing, isLoggedIn, loggedOut, expired>>]_vars

\* a retry was answered unauthorized and failed to its caller, and the
\* credentials the refresh had stored are still there
C21_Witness ==
    \E r \in Ids : \E p \in Refreshes :
        /\ calls[r].kind = "app" /\ calls[r].st = "done"
        /\ calls[r].n = 2 /\ calls[r].rs = Unauthorized
        /\ calls[r].res = Thrown(handleError(AxiosError("app", Unauthorized)))
        /\ calls[p].st = "done" /\ calls[p].res = Data
        /\ accessToken = Tok(p) /\ storage.accessToken = Tok(p)
        /\ header = Bearer(Tok(p))
        /\ refreshToken # null /\ storage.refreshToken = refreshToken

\* C22: in every state the stored credentials are a whole pair: the access
\* credential is present exactly when the refresh credential is, in memory
\* and in storage (what a reload would load).
C22_WholePair ==
    /\ (accessToken = null) <=> (refreshToken = null)
    /\ (storage.accessToken = null) <=> (storage.refreshToken = null)

\* C23: in every state the copies of the credentials agree: the persisted
\* access token is the one in memory, the default header is absent when it
\* is absent and 'Bearer <token>' otherwise, and the persisted refresh token
\* is the one in memory.
C23_CopiesAgree ==
    /\ storage.accessToken = accessToken
    /\ header = HeaderOf(accessToken)
    /\ storage.refreshToken = refreshToken

\* a refresh has replaced the access token after a login replaced both, and
\* all copies carry the new values
C23_Witness ==
    \E r \in Ids : \E p \in Refreshes :
        /\ calls[r].kind = "login" /\ calls[r].res = Data
        /\ calls[p].st = "done" /\ calls[p].res = Data /\ p > r
        /\ accessToken = Tok(p) /\ storage.accessToken = Tok(p)
        /\ header = Bearer(Tok(p))
        /\ refreshToken = Tok(r) /\ storage.refreshToken = Tok(r)

\* C24: when a login the backend rejected fails to its caller while the
\* client holds both credentials (and no application request is queued
\* behind a refresh of its own), that step leaves the access and refresh
\* credential, the persisted credentials and the default header unchanged.
C24_RejectedLoginKeepsSession ==
    [][\A r \in Ids :
         (/\ calls[r].kind = "login"
          /\ calls[r].st \in {"sent", "waiting"}
          /\ calls'[r].st = "done"
          /\ calls'[r].rs \in {Unauthorized, OtherStatus}
          /\ calls'[r].res.type = "error"
          /\ accessToken # null /\ refreshToken # null
          /\ \A w \in Ids : calls[w].kind = "app" => calls[w].st # "waiting")
         => UNCHANGED <<accessToken, refreshToken, storage, header>>]_vars

\* C25: from logout() until the next successful login, no call is dispatched
\* with an Authorization header: neither a first attempt nor the retry of a
\* request that was queued behind a refresh in flight at the logout.
C25_NoCredentialAfterLogout ==
    [][\A r \in Ids :
         (loggedOut /\ loggedOut' /\ calls'[r].n > calls[r].n)
         => calls'[r].auth = NoHeader]_vars

\* C26: a first attempt answered unauthorized while no refresh credential is
\* stored posts no refresh call: in that step the request fails to its
\* caller without a second dispatch and the credentials are cleared.
C26_NoRefreshWithoutCredential ==
    [][\A r \in Ids :
         (/\ calls[r].kind \in {"app", "login"}
          /\ Answered(r) /\ calls[r].n = 1
          /\ calls'[r].rs = Unauthorized
          /\ refreshToken = null)
         => /\ nCalls' = nCalls
            /\ calls'[r].st = "done"
            /\ calls'[r].res.type = "error"
            /\ calls'[r].n = 1
            /\ Cleared']_vars

\* C27: a refresh call answered with success but without an access token is
\* a failed refresh: both credentials are cleared everywhere, the marker is
\* cleared, nothing is dispatched, and every request queued behind it fails
\* to its caller with the error 'No access token received'.
C27_EmptyRefreshFails ==
    [][\A p \in Ids :
         (/\ calls[p].kind = "refresh"
          /\ Answered(p)
          /\ calls'[p].rs = OK
          /\ calls'[p].got = null)
         => /\ Cleared'
            /\ refreshing' = null
            /\ nCalls' = nCalls
            /\ calls'[p].st = "done"
            /\ calls'[p].res.type = "error"
            /\ \A w \in Waiters(Cur, {p}) :
                  /\ calls'[w].st = "done"
                  /\ calls'[w].n = calls[w].n
                  /\ calls'[w].res =
                        Thrown(handleError(Error("No access token received")))]_vars

\* a refresh was answered 200 without an access token: its two queued
\* callers hold the error, neither was dispatched again, nothing is stored
C27_Witness ==
    \E p \in Refreshes :
        /\ calls[p].st = "done" /\ calls[p].rs = OK /\ calls[p].got = null
        /\ Cardinality({w \in Ids : /\ calls[w].kind = "app"
                                    /\ calls[w].st = "done"
                                    /\ calls[w].retry
                                    /\ calls[w].n = 1
                                    /\ calls[w].res.message =
                                          "No access token received"}) >= 2
        /\ Cleared
        /\ refreshing = null

====
